---------------------------- MODULE Spec2Model ----------------------------
(***************************************************************************)
(* State machine of StateSpaceGridApp's state store (model.AppState) and   *)
(* controller (controller.AppControl).                                     *)
(*                                                                         *)
(* Python str values are sequences of one-character strings, so that       *)
(* splitext, basename, split(","), strip, join and the lexicographic       *)
(* order of sorted()/groupby() are computed as Python computes them.       *)
(* Optional[T] is a sequence of length 0 (None) or 1 (the value); a        *)
(* missing cell of a DataFrame (NaN) is None as well.                      *)
(***************************************************************************)
EXTENDS Integers, Sequences, FiniteSets, TLC

-----------------------------------------------------------------------------
(* Bounds of the model *)

\* at most this many datasets are loaded between two resets
MaxDatasets == 2

\* at most this many change listeners are registered
MaxListeners == 2

\* at most this many reset callbacks are registered
MaxResets == 2

\* at most this many files are loaded where the holders are selected and
\* deselected one by one (SpecTraj)
MaxTrajFiles == 1

-----------------------------------------------------------------------------
(* Optional values *)

None == <<>>

Some(v) == <<v>>

IsNone(o) == o = <<>>

Get(o) == o[1]

-----------------------------------------------------------------------------
(* Strings *)

\* code point of a character (the characters the model's inputs are made of)
Ord(c) ==
    CASE c = " " -> 32
      [] c = "," -> 44
      [] c = "." -> 46
      [] c = "/" -> 47
      [] c = "0" -> 48
      [] c = "1" -> 49
      [] c = "2" -> 50
      [] c = "3" -> 51
      [] c = "4" -> 52
      [] c = "5" -> 53
      [] c = "6" -> 54
      [] c = ":" -> 58
      [] c = "A" -> 65
      [] c = "B" -> 66
      [] c = "D" -> 68
      [] c = "I" -> 73
      [] c = "T" -> 84
      [] c = "a" -> 97
      [] c = "b" -> 98
      [] c = "c" -> 99
      [] c = "d" -> 100
      [] c = "g" -> 103
      [] c = "h" -> 104
      [] c = "j" -> 106
      [] c = "l" -> 108
      [] c = "r" -> 114
      [] c = "s" -> 115
      [] c = "t" -> 116
      [] c = "v" -> 118
      [] c = "x" -> 120
      [] c = "y" -> 121
      [] c = "z" -> 122

\* s < t for Python str: lexicographic by code point, a proper prefix first
RECURSIVE StrLess(_, _)
StrLess(s, t) ==
    IF t = <<>> THEN FALSE
    ELSE IF s = <<>> THEN TRUE
    ELSE IF s[1] = t[1] THEN StrLess(Tail(s), Tail(t))
    ELSE Ord(s[1]) < Ord(t[1])

\* index of the last occurrence of character c in s, 0 when absent
\* (str.rfind, shifted by one: sequences start at 1)
RECURSIVE RFind(_, _)
RFind(s, c) ==
    IF s = <<>> THEN 0
    ELSE IF s[Len(s)] = c THEN Len(s)
    ELSE RFind(SubSeq(s, 1, Len(s) - 1), c)

\* s[i:] of Python, for a 1-based first index
From(s, i) == SubSeq(s, i, Len(s))

\* os.path.basename (posixpath): what follows the last "/"
basename(p) == From(p, RFind(p, "/") + 1)

\* os.path.splitext(p)[-1] (genericpath._splitext): from the last "." on, when
\* that dot comes after the last "/" and is not one of the name's leading dots
splitext_ext(p) ==
    LET sepIndex == RFind(p, "/")
        dotIndex == RFind(p, ".")
    IN  IF dotIndex > sepIndex
           /\ \E k \in (sepIndex + 1)..(dotIndex - 1) : p[k] # "."
        THEN From(p, dotIndex)
        ELSE <<>>

\* str.split(","): the pieces between the commas, one more than there are commas
RECURSIVE SplitComma(_)
SplitComma(s) ==
    LET commas == {k \in 1..Len(s) : s[k] = ","}
    IN  IF commas = {} THEN <<s>>
        ELSE LET k == CHOOSE j \in commas : \A m \in commas : j <= m
             IN  <<SubSeq(s, 1, k - 1)>> \o SplitComma(From(s, k + 1))

\* str.strip(): without its leading and trailing blanks
RECURSIVE strip(_)
strip(s) ==
    IF s = <<>> THEN s
    ELSE IF s[1] = " " THEN strip(Tail(s))
    ELSE IF s[Len(s)] = " " THEN strip(SubSeq(s, 1, Len(s) - 1))
    ELSE s

\* sep.join(strs)
RECURSIVE join(_, _)
join(sep, strs) ==
    IF strs = <<>> THEN <<>>
    ELSE IF Len(strs) = 1 THEN strs[1]
    ELSE strs[1] \o sep \o join(sep, Tail(strs))

-----------------------------------------------------------------------------
(* Tables: pandas.DataFrame read with dtype=str *)

\* a DataFrame is [headers |-> column names, rows |-> rows of cells], a cell
\* being Some(text) or None (NaN)
HasColumn(df, h) == \E k \in 1..Len(df.headers) : df.headers[k] = h

ColumnIndex(df, h) == CHOOSE k \in 1..Len(df.headers) : df.headers[k] = h

\* df[h]: the cells of column h, in row order
Column(df, h) == [r \in 1..Len(df.rows) |-> df.rows[r][ColumnIndex(df, h)]]

\* Series.dropna().tolist(): the cells that are not missing, in row order
RECURSIVE dropna(_)
dropna(cells) ==
    IF cells = <<>> THEN <<>>
    ELSE (IF IsNone(cells[1]) THEN <<>> ELSE <<Get(cells[1])>>) \o dropna(Tail(cells))

\* the strings of a finite set in ascending order
RECURSIVE SortedStrs(_)
SortedStrs(S) ==
    IF S = {} THEN <<>>
    ELSE LET m == CHOOSE x \in S : \A y \in S : ~StrLess(y, x)
         IN  <<m>> \o SortedStrs(S \ {m})

\* the rows of df whose cell in column h is the text key, in row order
RECURSIVE RowsWithKey(_, _, _)
RowsWithKey(rows, k, key) ==
    IF rows = <<>> THEN <<>>
    ELSE (IF rows[1][k] = Some(key) THEN <<rows[1]>> ELSE <<>>)
         \o RowsWithKey(Tail(rows), k, key)

\* list(df.groupby(h)): one (key, sub-frame) pair per distinct value of
\* column h that is not missing, the keys ascending (sort=True, dropna=True),
\* each sub-frame holding that key's rows in their order in df
groupby(df, h) ==
    LET k    == ColumnIndex(df, h)
        keys == SortedStrs({Get(df.rows[r][k]) : r \in {q \in 1..Len(df.rows) : ~IsNone(df.rows[q][k])}})
    IN  [i \in 1..Len(keys) |->
            [key |-> keys[i],
             datum |-> [headers |-> df.headers, rows |-> RowsWithKey(df.rows, k, keys[i])]]]

\* Series.astype(float) succeeds on this text (the model's cells are made of
\* digits and letters only: a text of digits is a number, any other is not)
Digits == {"0", "1", "2", "3", "4", "5", "6"}

IsFloatText(s) == s # <<>> /\ \A k \in 1..Len(s) : s[k] \in Digits

\* float(s) of a text of digits
RECURSIVE ToFloat(_)
ToFloat(s) ==
    IF s = <<>> THEN 0
    ELSE 10 * ToFloat(SubSeq(s, 1, Len(s) - 1)) + (Ord(s[Len(s)]) - Ord("0"))

\* list(zip(xs, ys)): pairs up to the shorter length
Zip(xs, ys) ==
    LET n == IF Len(xs) < Len(ys) THEN Len(xs) ELSE Len(ys)
    IN  [i \in 1..n |-> <<xs[i], ys[i]>>]

-----------------------------------------------------------------------------
(* model.DataObjectIdentifier, model.DataObjectHolder *)

DataObjectIdentifier(filename, id) == [filename |-> filename, id |-> id]

\* DataObjectIdentifier.__str__
IdentifierStr(ident) ==
    IF ~IsNone(ident.id)
    THEN ident.filename \o <<":", ":">> \o Get(ident.id)
    ELSE ident.filename

\* selected defaults to True
DataObjectHolder(ident, headers, data) ==
    [filename |-> ident, headers |-> headers, data |-> data, selected |-> TRUE]

-----------------------------------------------------------------------------
(* State *)

VARIABLES
    data_objects,           \* AppState.data_objects: the loaded holders, in load order
    split_data_objects,     \* AppState.split_data_objects: the holders split by id
    split_by_id,            \* AppState.split_by_id: Optional column name
    x_header,               \* AppState.x_header: Optional column name
    y_header,               \* AppState.y_header
    t_header,               \* AppState.t_header
    x_range,                \* AppState.x_range: list of tick labels
    y_range,                \* AppState.y_range
    matpltlib_fig,          \* AppState.matpltlib_fig: Optional figure
    data_object_listeners,  \* AppState.data_object_listeners, in registration order
    plot_listener,          \* AppControl.plot_listener: Optional callback
    measure_listener,       \* AppControl.measure_listener: Optional callback
    resets,                 \* AppControl.resets, in registration order
    call,                   \* the last call made: what it raised, invoked and returned
    n_added,                \* history: addDataObject calls since creation or the last reset
    rendered                \* history: plot has invoked the render callback since creation

storeData == <<data_objects, split_data_objects, split_by_id>>

storeConfig == <<x_header, y_header, t_header, x_range, y_range>>

wiring == <<matpltlib_fig, data_object_listeners, plot_listener, measure_listener, resets>>

vars == <<data_objects, split_data_objects, split_by_id, x_header, y_header, t_header,
          x_range, y_range, matpltlib_fig, data_object_listeners, plot_listener,
          measure_listener, resets, call, n_added, rendered>>

\* The record of a call. error is "none" or the kind of the exception raised:
\* the AppError of controller.py is named by what its message reports
\* ("ConfigurationError": lines 81 and 83, "InternalWiringError": lines 41, 45
\* and 51, "UnsupportedFileType": line 101); "KeyError", "ValueError" and
\* "IOError" are raised by pandas and "LibraryError" by statespacegrid, and
\* propagate. message is the list of
\* extensions that ends the message of line 101. events are the callbacks
\* invoked during the call, in order; result is what the call returned or
\* wrote.
Call(op, arg, flag, error, message, reader, events, result) ==
    [op |-> op, arg |-> arg, flag |-> flag, error |-> error, message |-> message,
     reader |-> reader, events |-> events, result |-> result]

Event(kind, who, data) == [kind |-> kind, who |-> who, data |-> data]

-----------------------------------------------------------------------------
(* model.AppState *)

getDataObjectsOf(split, objs) == IF split # <<>> THEN split ELSE objs

\* AppState.getDataObjects
getDataObjects == getDataObjectsOf(split_data_objects, data_objects)

\* AppState.getIDs
getIDs == [i \in 1..Len(getDataObjects) |-> IdentifierStr(getDataObjects[i].filename)]

\* a < b for the sort key attrgetter("filename.filename", "filename.id"), a
\* tuple (str, Optional[str]): by the first component, and by the second when
\* the first are equal; two None are equal
KeyLess(a, b) ==
    IF a.filename.filename # b.filename.filename
    THEN StrLess(a.filename.filename, b.filename.filename)
    ELSE IF IsNone(a.filename.id) \/ IsNone(b.filename.id) THEN FALSE
    ELSE StrLess(Get(a.filename.id), Get(b.filename.id))

\* comparing the keys of a and b raises TypeError: equal file names, and one id
\* is None while the other is a str
KeyTypeError(a, b) ==
    /\ a.filename.filename = b.filename.filename
    /\ IsNone(a.filename.id) # IsNone(b.filename.id)

\* sorted(objs, key=...): stable, ascending
RECURSIVE SortedByKey(_)
SortedByKey(objs) ==
    IF objs = <<>> THEN <<>>
    ELSE LET front == SortedByKey(SubSeq(objs, 1, Len(objs) - 1))
             x     == objs[Len(objs)]
             after == {k \in 1..Len(front) : KeyLess(x, front[k])}
             at    == IF after = {} THEN Len(front) + 1
                      ELSE CHOOSE k \in after : \A m \in after : k <= m
         IN  SubSeq(front, 1, at - 1) \o <<x>> \o SubSeq(front, at, Len(front))

\* update, were it to hand the effective holders over as they are stored
update_unsorted(split, objs) ==
    LET eff == getDataObjectsOf(split, objs)
    IN  IF \E i, j \in 1..Len(eff) : KeyTypeError(eff[i], eff[j])
        THEN [error |-> "TypeError", events |-> <<>>]
        ELSE [error |-> "none",
              events |-> [i \in 1..Len(data_object_listeners) |->
                            Event("listener", data_object_listeners[i], eff)]]

\* AppState.update: [error, events]; every listener, in registration order, is
\* given the sorted effective holders
update(split, objs) ==
    LET eff == getDataObjectsOf(split, objs)
    IN  IF \E i, j \in 1..Len(eff) : KeyTypeError(eff[i], eff[j])
        THEN [error |-> "TypeError", events |-> <<>>]
        ELSE [error |-> "none",
              events |-> [i \in 1..Len(data_object_listeners) |->
                            Event("listener", data_object_listeners[i], SortedByKey(eff))]]

\* _splitByID, were it to give every split holder the whole frame of its parent
SplitOf_whole_frame(data_object, col) ==
    LET split_data == groupby(data_object.data, col)
    IN  [i \in 1..Len(split_data) |->
            DataObjectHolder(
                DataObjectIdentifier(data_object.filename.filename, Some(split_data[i].key)),
                data_object.headers,
                data_object.data)]

\* AppState._splitByID: the holders appended to split_data_objects for one
\* data object (groupby raises KeyError when the column is not in the frame)
SplitOf(data_object, col) ==
    LET split_data == groupby(data_object.data, col)
    IN  [i \in 1..Len(split_data) |->
            DataObjectHolder(
                DataObjectIdentifier(data_object.filename.filename, Some(split_data[i].key)),
                data_object.headers,
                split_data[i].datum)]

\* the loop of AppState.addSplitByID over objs: [error, split], the split
\* holders appended until the first data object without the column
RECURSIVE SplitAll(_, _, _)
SplitAll(split, objs, col) ==
    IF objs = <<>> THEN [error |-> "none", split |-> split]
    ELSE IF ~HasColumn(objs[1].data, col) THEN [error |-> "KeyError", split |-> split]
    ELSE SplitAll(split \o SplitOf(objs[1], col), Tail(objs), col)


\* addDataObject, were it to skip a file whose base name is already loaded
addDataObject_dedup(op, file_path, reader, data) ==
    LET holder == DataObjectHolder(DataObjectIdentifier(basename(file_path), None),
                                   data.headers, data)
        known  == \E k \in 1..Len(data_objects) :
                     data_objects[k].filename.filename = basename(file_path)
        objs   == IF known THEN data_objects ELSE Append(data_objects, holder)
        upd    == update(split_data_objects, objs)
    IN  /\ Len(data_objects) < MaxDatasets
        /\ data_objects' = objs
        /\ n_added' = n_added + 1
        /\ call' = Call(op, file_path, FALSE, upd.error, <<>>, reader, upd.events, <<>>)
        /\ UNCHANGED <<split_data_objects, split_by_id, storeConfig, wiring, rendered>>

\* addDataObject, were it to put the new holder first
addDataObject_front(op, file_path, reader, data) ==
    LET holder == DataObjectHolder(DataObjectIdentifier(basename(file_path), None),
                                   data.headers, data)
        objs   == <<holder>> \o data_objects
        splits == ~IsNone(split_by_id) /\ Get(split_by_id) # <<>>
        keyerr == splits /\ ~HasColumn(data, Get(split_by_id))
        split  == IF splits /\ ~keyerr
                  THEN split_data_objects \o SplitOf(holder, Get(split_by_id))
                  ELSE split_data_objects
        upd    == update(split, objs)
    IN  /\ Len(data_objects) < MaxDatasets
        /\ data_objects' = objs
        /\ split_data_objects' = split
        /\ n_added' = n_added + 1
        /\ call' = IF keyerr
                   THEN Call(op, file_path, FALSE, "KeyError", <<>>, reader, <<>>, <<>>)
                   ELSE Call(op, file_path, FALSE, upd.error, <<>>, reader, upd.events, <<>>)
        /\ UNCHANGED <<split_by_id, storeConfig, wiring, rendered>>

\* AppState.addDataObject(file_path, data), called by the reader named reader
addDataObject(op, file_path, reader, data) ==
    LET holder == DataObjectHolder(DataObjectIdentifier(basename(file_path), None),
                                   data.headers, data)
        objs   == Append(data_objects, holder)
        \* if self.split_by_id: (None and "" are both falsy)
        splits == ~IsNone(split_by_id) /\ Get(split_by_id) # <<>>
        keyerr == splits /\ ~HasColumn(data, Get(split_by_id))
        split  == IF splits /\ ~keyerr
                  THEN split_data_objects \o SplitOf(holder, Get(split_by_id))
                  ELSE split_data_objects
        upd    == update(split, objs)
    IN  /\ Len(data_objects) < MaxDatasets
        /\ data_objects' = objs
        /\ split_data_objects' = split
        /\ n_added' = n_added + 1
        /\ call' = IF keyerr
                   THEN Call(op, file_path, FALSE, "KeyError", <<>>, reader, <<>>, <<>>)
                   ELSE Call(op, file_path, FALSE, upd.error, <<>>, reader, upd.events, <<>>)
        /\ UNCHANGED <<split_by_id, storeConfig, wiring, rendered>>

\* addDataListener, were it to replay the current holders to the new listener
addDataListener_replay(listener) ==
    /\ Len(data_object_listeners) < MaxListeners
    /\ data_object_listeners' = Append(data_object_listeners, listener)
    /\ call' = Call("addDataListener", <<>>, FALSE, "none", <<>>, "",
                    <<Event("listener", listener, SortedByKey(getDataObjects))>>, <<>>)
    /\ UNCHANGED <<storeData, storeConfig, matpltlib_fig, plot_listener,
                   measure_listener, resets, n_added, rendered>>

\* AppState.addDataListener(listener)
addDataListener(listener) ==
    /\ Len(data_object_listeners) < MaxListeners
    /\ data_object_listeners' = Append(data_object_listeners, listener)
    /\ call' = Call("addDataListener", <<>>, FALSE, "none", <<>>, "", <<>>, <<>>)
    /\ UNCHANGED <<storeData, storeConfig, matpltlib_fig, plot_listener,
                   measure_listener, resets, n_added, rendered>>

\* addSplitByID, were it to return early, without update, on the empty name
addSplitByID_silent_clear(id) ==
    LET all   == IF id = <<>> THEN [error |-> "none", split |-> <<>>]
                 ELSE SplitAll(<<>>, data_objects, id)
        upd   == update(all.split, data_objects)
    IN  /\ split_data_objects' = all.split
        /\ split_by_id' = IF id = <<>> THEN None ELSE Some(id)
        /\ call' = IF all.error # "none" \/ id = <<>>
                   THEN Call("addSplitByID", id, FALSE, all.error, <<>>, "", <<>>, <<>>)
                   ELSE Call("addSplitByID", id, FALSE, upd.error, <<>>, "", upd.events, <<>>)
        /\ UNCHANGED <<data_objects, storeConfig, wiring, n_added, rendered>>

\* addSplitByID, were it not to clear split_data_objects first
addSplitByID_noclear(id) ==
    LET all   == IF id = <<>> THEN [error |-> "none", split |-> <<>>]
                 ELSE SplitAll(split_data_objects, data_objects, id)
        upd   == update(all.split, data_objects)
    IN  /\ split_data_objects' = all.split
        /\ split_by_id' = IF id = <<>> THEN None ELSE Some(id)
        /\ call' = IF all.error # "none"
                   THEN Call("addSplitByID", id, FALSE, all.error, <<>>, "", <<>>, <<>>)
                   ELSE Call("addSplitByID", id, FALSE, upd.error, <<>>, "", upd.events, <<>>)
        /\ UNCHANGED <<data_objects, storeConfig, wiring, n_added, rendered>>

\* AppState.addSplitByID(id)
addSplitByID(id) ==
    LET all   == IF id = <<>> THEN [error |-> "none", split |-> <<>>]
                 ELSE SplitAll(<<>>, data_objects, id)
        upd   == update(all.split, data_objects)
    IN  /\ split_data_objects' = all.split
        /\ split_by_id' = IF id = <<>> THEN None ELSE Some(id)
        /\ call' = IF all.error # "none"
                   THEN Call("addSplitByID", id, FALSE, all.error, <<>>, "", <<>>, <<>>)
                   ELSE Call("addSplitByID", id, FALSE, upd.error, <<>>, "", upd.events, <<>>)
        /\ UNCHANGED <<data_objects, storeConfig, wiring, n_added, rendered>>

\* StateReset, were it to empty the listener list with the other lists
StateReset_forgets_listeners(op, before) ==
    /\ data_objects' = <<>>
    /\ split_data_objects' = <<>>
    /\ split_by_id' = None
    /\ x_header' = None
    /\ y_header' = None
    /\ t_header' = None
    /\ n_added' = 0
    /\ data_object_listeners' = <<>>
    /\ call' = Call(op, <<>>, FALSE, "none", <<>>, "",
                    before \o update(<<>>, <<>>).events, <<>>)
    /\ UNCHANGED <<x_range, y_range, matpltlib_fig, plot_listener, measure_listener,
                   resets, rendered>>

\* StateReset, were it to leave the time role as it leaves the ranges
StateReset_keeps_t_header(op, before) ==
    /\ data_objects' = <<>>
    /\ split_data_objects' = <<>>
    /\ split_by_id' = None
    /\ x_header' = None
    /\ y_header' = None
    /\ n_added' = 0
    /\ call' = Call(op, <<>>, FALSE, "none", <<>>, "",
                    before \o update(<<>>, <<>>).events, <<>>)
    /\ UNCHANGED <<t_header, x_range, y_range, wiring, rendered>>

\* StateReset, were it to clear the ranges as it clears the column roles
StateReset_ranges(op, before) ==
    /\ data_objects' = <<>>
    /\ split_data_objects' = <<>>
    /\ split_by_id' = None
    /\ x_header' = None
    /\ y_header' = None
    /\ t_header' = None
    /\ x_range' = <<>>
    /\ y_range' = <<>>
    /\ n_added' = 0
    /\ call' = Call(op, <<>>, FALSE, "none", <<>>, "",
                    before \o update(<<>>, <<>>).events, <<>>)
    /\ UNCHANGED <<wiring, rendered>>

\* AppState.reset, after the callbacks before (AppControl.reset's) were invoked
StateReset(op, before) ==
    /\ data_objects' = <<>>
    /\ split_data_objects' = <<>>
    /\ split_by_id' = None
    /\ x_header' = None
    /\ y_header' = None
    /\ t_header' = None
    /\ n_added' = 0
    /\ call' = Call(op, <<>>, FALSE, "none", <<>>, "",
                    before \o update(<<>>, <<>>).events, <<>>)
    /\ UNCHANGED <<x_range, y_range, wiring, rendered>>

\* AppState.reset
reset == StateReset("reset", <<>>)

\* set_x_header, were it to notify the listeners as the mutations of the
\* holders do
set_x_header_notifying(header) ==
    /\ x_header' = Some(header)
    /\ call' = Call("set_x_header", header, FALSE, "none", <<>>, "",
                    update(split_data_objects, data_objects).events, <<>>)
    /\ UNCHANGED <<storeData, y_header, t_header, x_range, y_range, wiring, n_added, rendered>>

\* AppState.set_x_header(header)
set_x_header(header) ==
    /\ x_header' = Some(header)
    /\ call' = Call("set_x_header", header, FALSE, "none", <<>>, "", <<>>, <<>>)
    /\ UNCHANGED <<storeData, y_header, t_header, x_range, y_range, wiring, n_added, rendered>>

\* AppState.set_y_header(header)
set_y_header(header) ==
    /\ y_header' = Some(header)
    /\ call' = Call("set_y_header", header, FALSE, "none", <<>>, "", <<>>, <<>>)
    /\ UNCHANGED <<storeData, x_header, t_header, x_range, y_range, wiring, n_added, rendered>>

\* AppState.set_t_header(header)
set_t_header(header) ==
    /\ t_header' = Some(header)
    /\ call' = Call("set_t_header", header, FALSE, "none", <<>>, "", <<>>, <<>>)
    /\ UNCHANGED <<storeData, x_header, y_header, x_range, y_range, wiring, n_added, rendered>>

\* [tick.strip() for tick in range_list.split(",")]
ParseRange(range_list) ==
    LET ticks == SplitComma(range_list)
    IN  [i \in 1..Len(ticks) |-> strip(ticks[i])]

\* AppState.set_x_range(range_list)
set_x_range(range_list) ==
    /\ x_range' = ParseRange(range_list)
    /\ call' = Call("set_x_range", range_list, FALSE, "none", <<>>, "", <<>>, <<>>)
    /\ UNCHANGED <<storeData, x_header, y_header, t_header, y_range, wiring, n_added, rendered>>

\* AppState.set_y_range(range_list)
set_y_range(range_list) ==
    /\ y_range' = ParseRange(range_list)
    /\ call' = Call("set_y_range", range_list, FALSE, "none", <<>>, "", <<>>, <<>>)
    /\ UNCHANGED <<storeData, x_header, y_header, t_header, x_range, wiring, n_added, rendered>>

\* AppState.set_plot_structures(fig, ax) (through AppControl.set_plot_structures)
set_plot_structures ==
    /\ matpltlib_fig' = Some("fig")
    /\ call' = Call("set_plot_structures", <<>>, FALSE, "none", <<>>, "", <<>>, <<>>)
    /\ UNCHANGED <<storeData, storeConfig, data_object_listeners, plot_listener,
                   measure_listener, resets, n_added, rendered>>

\* DataObjectHolder.setSelected(is_selected) on the i-th effective holder:
\* the check box of a row of the trajectory list (app.py,
\* TrajectoryRowWidget.__init__), whose rows are the holders the listeners
\* were given
setSelected(i, is_selected) ==
    /\ i \in 1..Len(getDataObjects)
    /\ IF split_data_objects # <<>>
       THEN /\ split_data_objects' = [split_data_objects EXCEPT ![i].selected = is_selected]
            /\ UNCHANGED data_objects
       ELSE /\ data_objects' = [data_objects EXCEPT ![i].selected = is_selected]
            /\ UNCHANGED split_data_objects
    /\ call' = Call("setSelected", <<>>, is_selected, "none", <<>>, "", <<>>, <<>>)
    /\ UNCHANGED <<split_by_id, storeConfig, wiring, n_added, rendered>>

-----------------------------------------------------------------------------
(* controller.AppControl *)

\* AppControl.file_readers as __init__ builds it: the extension_handler of
\* every decorated method, in the order of dir(AppControl)
file_readers ==
    << [extension |-> <<".", "c", "s", "v">>,      reader |-> "read_csv"],
       [extension |-> <<".", "t", "r", "a", "j">>, reader |-> "read_traj"],
       [extension |-> <<".", "t", "s", "v">>,      reader |-> "read_tsv"],
       [extension |-> <<"x", "l", "s">>,           reader |-> "read_xls"] >>

\* AppControl.canHandle(extension)
canHandle(extension) ==
    \E k \in 1..Len(file_readers) : file_readers[k].extension = extension

\* self.file_readers[extension]
ReaderOf(extension) ==
    file_readers[CHOOSE k \in 1..Len(file_readers) : file_readers[k].extension = extension].reader

\* ', '.join(self.file_readers.keys())
SupportedExtensions ==
    join(<<",", " ">>, [k \in 1..Len(file_readers) |-> file_readers[k].extension])

\* The trajectory built from one holder (statespacegrid.trajectory.Trajectory
\* is the library's: the model keeps the arguments it is constructed with)
Trajectory(data) ==
    [x_range |-> x_range,
     y_range |-> y_range,
     states  |-> Zip(dropna(Column(data.data, Get(x_header))),
                     dropna(Column(data.data, Get(y_header)))),
     times   |-> LET cells == dropna(Column(data.data, Get(t_header)))
                 IN  [i \in 1..Len(cells) |-> ToFloat(cells[i])]]

\* what building the trajectory of one holder raises
TrajectoryError(data) ==
    IF \/ ~HasColumn(data.data, Get(x_header))
       \/ ~HasColumn(data.data, Get(y_header))
       \/ ~HasColumn(data.data, Get(t_header))
    THEN "KeyError"
    ELSE IF \E k \in 1..Len(data.data.rows) :
               LET cell == Column(data.data, Get(t_header))[k]
               IN  ~IsNone(cell) /\ ~IsFloatText(Get(cell))
    THEN "ValueError"
    ELSE "none"

\* [data for data in objs if data.selected]
RECURSIVE Selected(_)
Selected(objs) ==
    IF objs = <<>> THEN <<>>
    ELSE (IF objs[1].selected THEN <<objs[1]>> ELSE <<>>) \o Selected(Tail(objs))

\* getTrajectories, were it to check the x range only
getTrajectories_xonly ==
    IF IsNone(x_header) \/ IsNone(y_header) \/ IsNone(t_header)
    THEN [error |-> "ConfigurationError", trajectories |-> <<>>]
    ELSE IF x_range = <<>>
    THEN [error |-> "ConfigurationError", trajectories |-> <<>>]
    ELSE LET chosen == Selected(getDataObjects)
             failed == {k \in 1..Len(chosen) : TrajectoryError(chosen[k]) # "none"}
         IN  IF failed # {}
             THEN [error |-> TrajectoryError(chosen[CHOOSE k \in failed : \A m \in failed : k <= m]),
                   trajectories |-> <<>>]
             ELSE [error |-> "none", trajectories |-> [k \in 1..Len(chosen) |-> Trajectory(chosen[k])]]

\* getTrajectories, were it to walk the holders in the sorted order the
\* listeners are given
getTrajectories_sorted ==
    IF IsNone(x_header) \/ IsNone(y_header) \/ IsNone(t_header)
    THEN [error |-> "ConfigurationError", trajectories |-> <<>>]
    ELSE IF x_range = <<>> \/ y_range = <<>>
    THEN [error |-> "ConfigurationError", trajectories |-> <<>>]
    ELSE LET chosen == Selected(SortedByKey(getDataObjects))
             failed == {k \in 1..Len(chosen) : TrajectoryError(chosen[k]) # "none"}
         IN  IF failed # {}
             THEN [error |-> TrajectoryError(chosen[CHOOSE k \in failed : \A m \in failed : k <= m]),
                   trajectories |-> <<>>]
             ELSE [error |-> "none", trajectories |-> [k \in 1..Len(chosen) |-> Trajectory(chosen[k])]]

\* AppControl.getTrajectories: [error, trajectories]
getTrajectories ==
    IF IsNone(x_header) \/ IsNone(y_header) \/ IsNone(t_header)
    THEN [error |-> "ConfigurationError", trajectories |-> <<>>]
    ELSE IF x_range = <<>> \/ y_range = <<>>
    THEN [error |-> "ConfigurationError", trajectories |-> <<>>]
    ELSE LET chosen == Selected(getDataObjects)
             failed == {k \in 1..Len(chosen) : TrajectoryError(chosen[k]) # "none"}
         IN  IF failed # {}
             THEN [error |-> TrajectoryError(chosen[CHOOSE k \in failed : \A m \in failed : k <= m]),
                   trajectories |-> <<>>]
             ELSE [error |-> "none", trajectories |-> [k \in 1..Len(chosen) |-> Trajectory(chosen[k])]]

\* statespacegrid.measure.get_measures(*trajectories) is the library's: a pure
\* function of the trajectories it is given
get_measures(trajectories) == [measures_of |-> trajectories]

\* a call of AppControl.getTrajectories by the user of the controller
GetTrajectories ==
    LET t == getTrajectories
    IN  /\ call' = Call("getTrajectories", <<>>, FALSE, t.error, <<>>, "", <<>>, t.trajectories)
        /\ UNCHANGED <<storeData, storeConfig, wiring, n_added, rendered>>

\* plot, were it to display the measures of an empty list of trajectories too
plot_always_measures ==
    LET t       == getTrajectories
        render  == Event("render", 0, t.trajectories)
        measure == Event("measure", 0, <<get_measures(t.trajectories)>>)
    IN  /\ call' =
             IF t.error # "none"
             THEN Call("plot", <<>>, FALSE, t.error, <<>>, "", <<>>, <<>>)
             ELSE IF IsNone(plot_listener)
             THEN Call("plot", <<>>, FALSE, "InternalWiringError", <<>>, "", <<>>, <<>>)
             ELSE IF IsNone(measure_listener)
             THEN Call("plot", <<>>, FALSE, "InternalWiringError", <<>>, "", <<render>>, <<>>)
             ELSE Call("plot", <<>>, FALSE, "none", <<>>, "", <<render, measure>>, <<>>)
        /\ rendered' = (rendered \/ (t.error = "none" /\ ~IsNone(plot_listener)))
        /\ UNCHANGED <<storeData, storeConfig, wiring, n_added>>

\* plot, were it to ask for the measure callback only when there are
\* trajectories to measure
plot_lazy_measure_check ==
    LET t       == getTrajectories
        render  == Event("render", 0, t.trajectories)
        measure == Event("measure", 0, <<get_measures(t.trajectories)>>)
    IN  /\ call' =
             IF t.error # "none"
             THEN Call("plot", <<>>, FALSE, t.error, <<>>, "", <<>>, <<>>)
             ELSE IF IsNone(plot_listener)
             THEN Call("plot", <<>>, FALSE, "InternalWiringError", <<>>, "", <<>>, <<>>)
             ELSE IF t.trajectories = <<>>
             THEN Call("plot", <<>>, FALSE, "none", <<>>, "", <<render>>, <<>>)
             ELSE IF IsNone(measure_listener)
             THEN Call("plot", <<>>, FALSE, "InternalWiringError", <<>>, "", <<render>>, <<>>)
             ELSE Call("plot", <<>>, FALSE, "none", <<>>, "", <<render, measure>>, <<>>)
        /\ rendered' = (rendered \/ (t.error = "none" /\ ~IsNone(plot_listener)))
        /\ UNCHANGED <<storeData, storeConfig, wiring, n_added>>

\* AppControl.plot
plot ==
    LET t       == getTrajectories
        render  == Event("render", 0, t.trajectories)
        measure == Event("measure", 0, <<get_measures(t.trajectories)>>)
    IN  /\ call' =
             IF t.error # "none"
             THEN Call("plot", <<>>, FALSE, t.error, <<>>, "", <<>>, <<>>)
             ELSE IF IsNone(plot_listener)
             THEN Call("plot", <<>>, FALSE, "InternalWiringError", <<>>, "", <<>>, <<>>)
             ELSE IF IsNone(measure_listener)
             THEN Call("plot", <<>>, FALSE, "InternalWiringError", <<>>, "", <<render>>, <<>>)
             ELSE IF t.trajectories # <<>>
             THEN Call("plot", <<>>, FALSE, "none", <<>>, "", <<render, measure>>, <<>>)
             ELSE Call("plot", <<>>, FALSE, "none", <<>>, "", <<render>>, <<>>)
        /\ rendered' = (rendered \/ (t.error = "none" /\ ~IsNone(plot_listener)))
        /\ UNCHANGED <<storeData, storeConfig, wiring, n_added>>

\* export_plot, were it to refuse as long as plot has rendered nothing
export_plot_after_render ==
    /\ call' = IF IsNone(matpltlib_fig) \/ ~rendered
               THEN Call("export_plot", <<>>, FALSE, "InternalWiringError", <<>>, "", <<>>, <<>>)
               ELSE Call("export_plot", <<>>, FALSE, "none", <<>>, "",
                         <<Event("savefig", 0, <<>>)>>, <<>>)
    /\ UNCHANGED <<storeData, storeConfig, wiring, n_added, rendered>>

\* AppControl.export_plot(path)
export_plot ==
    /\ call' = IF IsNone(matpltlib_fig)
               THEN Call("export_plot", <<>>, FALSE, "InternalWiringError", <<>>, "", <<>>, <<>>)
               ELSE Call("export_plot", <<>>, FALSE, "none", <<>>, "",
                         <<Event("savefig", 0, <<>>)>>, <<>>)
    /\ UNCHANGED <<storeData, storeConfig, wiring, n_added, rendered>>

\* the rows AppControl.export_measures writes: zip(trajectory_ids, trajectories)
\* row by row, or one row for all trajectories
MeasureRows(trajectory_ids, trajectories, do_for_individual_trajectories) ==
    IF do_for_individual_trajectories
    THEN [i \in 1..(IF Len(trajectory_ids) < Len(trajectories)
                    THEN Len(trajectory_ids) ELSE Len(trajectories)) |->
            [id |-> Some(trajectory_ids[i]), measures |-> get_measures(<<trajectories[i]>>)]]
    ELSE << [id |-> None, measures |-> get_measures(trajectories)] >>

\* what get_measures() of no trajectory at all can do: the library's choice,
\* which plot never puts to the test (if trajectories:); it returns a record
\* or raises
EmptyMeasuresOutcomes == {"returns", "raises"}

\* AppControl.export_measures(path, do_for_individual_trajectories)
export_measures(do_for_individual_trajectories) ==
    LET t == getTrajectories
    IN  /\ \E outcome \in (IF /\ t.error = "none"
                                /\ ~do_for_individual_trajectories
                                /\ t.trajectories = <<>>
                             THEN EmptyMeasuresOutcomes
                             ELSE {"returns"}) :
              call' =
                 IF t.error # "none"
                 THEN Call("export_measures", <<>>, do_for_individual_trajectories, t.error,
                           <<>>, "", <<>>, <<>>)
                 ELSE IF outcome = "raises"
                 THEN Call("export_measures", <<>>, do_for_individual_trajectories,
                           "LibraryError", <<>>, "", <<>>, <<>>)
                 ELSE Call("export_measures", <<>>, do_for_individual_trajectories, "none",
                           <<>>, "", <<>>,
                           MeasureRows(getIDs, t.trajectories, do_for_individual_trajectories))
        /\ UNCHANGED <<storeData, storeConfig, wiring, n_added, rendered>>

\* what a callback invoked now finds in the store
StoreSeen == <<data_objects, split_data_objects, split_by_id, x_header, y_header, t_header>>

\* AppControl.reset, were it to reset the store before it invokes the callbacks
AppControl_reset_store_first ==
    /\ data_objects' = <<>>
    /\ split_data_objects' = <<>>
    /\ split_by_id' = None
    /\ x_header' = None
    /\ y_header' = None
    /\ t_header' = None
    /\ n_added' = 0
    /\ call' = Call("AppControl.reset", <<>>, FALSE, "none", <<>>, "",
                    update(<<>>, <<>>).events
                    \o [i \in 1..Len(resets) |->
                          Event("reset_func", resets[i], <<<<>>, <<>>, None, None, None, None>>)],
                    <<>>)
    /\ UNCHANGED <<x_range, y_range, wiring, rendered>>

\* AppControl.reset: every reset callback, in the order of resets, each
\* finding the store as it was, then AppState.reset
AppControl_reset ==
    StateReset("AppControl.reset",
               [i \in 1..Len(resets) |-> Event("reset_func", resets[i], StoreSeen)])

\* AppControl.addDataListener(listener): the next listener registers
AppControl_addDataListener == addDataListener(Len(data_object_listeners) + 1)

\* read_file, were it to fall back on read_csv for an unknown extension
read_file_fallback(file_path, frame) ==
    LET extension == splitext_ext(file_path)
        reader    == IF canHandle(extension) THEN ReaderOf(extension) ELSE "read_csv"
    IN  IF IsNone(frame)
        THEN /\ call' = Call("read_file", file_path, FALSE, "IOError", <<>>, reader, <<>>, <<>>)
             /\ UNCHANGED <<storeData, storeConfig, wiring, n_added, rendered>>
        ELSE addDataObject("read_file", file_path, reader, Get(frame))

\* AppControl.read_file(file_path); frame is what the reader parses from the
\* file, None when pandas fails to read it
read_file(file_path, frame) ==
    LET extension == splitext_ext(file_path)
    IN  IF canHandle(extension)
        THEN IF IsNone(frame)
             THEN /\ call' = Call("read_file", file_path, FALSE, "IOError", <<>>,
                                  ReaderOf(extension), <<>>, <<>>)
                  /\ UNCHANGED <<storeData, storeConfig, wiring, n_added, rendered>>
             ELSE addDataObject("read_file", file_path, ReaderOf(extension), Get(frame))
        ELSE /\ call' = Call("read_file", file_path, FALSE, "UnsupportedFileType",
                             SupportedExtensions, "", <<>>, <<>>)
             /\ UNCHANGED <<storeData, storeConfig, wiring, n_added, rendered>>


\* self.controller.plot_listener = ... (app.py, SSGWidget.__init__)
SetPlotListener ==
    /\ plot_listener' = Some("plot")
    /\ call' = Call("plot_listener=", <<>>, FALSE, "none", <<>>, "", <<>>, <<>>)
    /\ UNCHANGED <<storeData, storeConfig, matpltlib_fig, data_object_listeners,
                   measure_listener, resets, n_added, rendered>>

\* controller.measure_listener = self.setMeasures (app.py, MeasuresWindow.__init__)
SetMeasureListener ==
    /\ measure_listener' = Some("setMeasures")
    /\ call' = Call("measure_listener=", <<>>, FALSE, "none", <<>>, "", <<>>, <<>>)
    /\ UNCHANGED <<storeData, storeConfig, matpltlib_fig, data_object_listeners,
                   plot_listener, resets, n_added, rendered>>

\* controller.resets.append(self.reset) (app.py, the widgets' __init__)
AppendReset ==
    /\ Len(resets) < MaxResets
    /\ resets' = Append(resets, Len(resets) + 1)
    /\ call' = Call("resets.append", <<>>, FALSE, "none", <<>>, "", <<>>, <<>>)
    /\ UNCHANGED <<storeData, storeConfig, matpltlib_fig, data_object_listeners,
                   plot_listener, measure_listener, n_added, rendered>>

-----------------------------------------------------------------------------
(* Inputs *)

PathA == <<"a", ".", "c", "s", "v">>

PathDirA == <<"d", "/", "a", ".", "c", "s", "v">>

PathTsv == <<"b", ".", "t", "s", "v">>

PathTraj == <<"b", ".", "t", "r", "a", "j">>

PathXls == <<"c", ".", "x", "l", "s">>

PathXyz == <<"c", ".", "x", "y", "z">>

\* a file without extension in a directory whose name has a dot
PathNoExt == <<"d", ".", "d", "/", "x", "l", "s">>

\* a file whose name is only an extension
PathHidden == <<".", "c", "s", "v">>

ColA == <<"A">>

ColB == <<"B">>

ColT == <<"T">>

ColID == <<"I", "D">>

Txt(c) == Some(<<c>>)

\* three rows in two groups
FrameExample ==
    [headers |-> <<ColA, ColB, ColT, ColID>>,
     rows |-> << <<Txt("1"), Txt("2"), Txt("0"), Some(<<"g", "2">>)>>,
                 <<Txt("3"), Txt("4"), Txt("1"), Some(<<"g", "1">>)>>,
                 <<Txt("5"), Txt("6"), Txt("0"), Some(<<"g", "2">>)>> >>]

\* a frame without rows
FrameEmpty == [headers |-> <<ColA, ColB, ColT, ColID>>, rows |-> <<>>]

\* a frame without the ID column
FrameNoID ==
    [headers |-> <<ColA, ColB, ColT>>,
     rows |-> << <<Txt("1"), Txt("2"), Txt("0")>> >>]

\* a frame with missing cells, in the y column and in the ID column
FrameMissing ==
    [headers |-> <<ColA, ColB, ColT, ColID>>,
     rows |-> << <<Txt("1"), None, Txt("0"), None>>,
                 <<Txt("3"), Txt("4"), Txt("1"), Txt("h")>> >>]

\* the texts typed into a range field
RangeEmpty == <<>>

RangeTicks == <<"1", ",", "3">>

RangeBlanks == <<" ", "2", " ", ",", "4", " ">>

\* what a reader parses from a file: one of frames, or None when it fails (a
\* file no reader is registered for is not parsed: its frame is None)
Parsed(frames) == {None} \cup {Some(f) : f \in frames}

-----------------------------------------------------------------------------
(* Specifications *)

\* AppControl.__init__ and AppState's field defaults
Init ==
    /\ data_objects = <<>>
    /\ split_data_objects = <<>>
    /\ split_by_id = None
    /\ x_header = None
    /\ y_header = None
    /\ t_header = None
    /\ x_range = <<>>
    /\ y_range = <<>>
    /\ matpltlib_fig = None
    /\ data_object_listeners = <<>>
    /\ plot_listener = None
    /\ measure_listener = None
    /\ resets = <<>>
    /\ call = Call("__init__", <<>>, FALSE, "none", <<>>, "", <<>>, <<>>)
    /\ n_added = 0
    /\ rendered = FALSE

\* The state store: files of every kind of path are read, the grouping column
\* is set, changed and cleared, listeners register and the store is reset.
NextStore ==
    \/ \E file_path \in {PathA, PathDirA, PathTraj, PathXls, PathXyz, PathNoExt, PathHidden} :
          \E frame \in (IF canHandle(splitext_ext(file_path))
                        THEN Parsed({FrameExample, FrameEmpty, FrameNoID, FrameMissing})
                        ELSE {None}) :
             read_file(file_path, frame)
    \/ \E id \in {<<>>, ColID, ColA} : addSplitByID(id)
    \/ reset
    \/ AppControl_addDataListener

SpecStore == Init /\ [][NextStore]_vars

\* The configuration: the column roles and the ranges are set from the texts
\* of the dropdowns and of the range fields, a file is read and grouped, its
\* first holder is selected and deselected, listeners register, the
\* trajectories are computed and the store is reset.
NextConfig ==
    \/ \E frame \in Parsed({FrameExample}) : read_file(PathA, frame)
    \/ \E id \in {<<>>, ColID} : addSplitByID(id)
    \/ reset
    \/ \E header \in {ColA, <<>>} : set_x_header(header)
    \/ set_y_header(ColB)
    \/ set_t_header(ColT)
    \/ \E range_list \in {RangeEmpty, RangeTicks, RangeBlanks} : set_x_range(range_list)
    \/ \E range_list \in {RangeEmpty, RangeTicks, RangeBlanks} : set_y_range(range_list)
    \/ AppControl_addDataListener
    \/ \E is_selected \in BOOLEAN : setSelected(1, is_selected)
    \/ GetTrajectories

SpecConfig == Init /\ [][NextConfig]_vars

\* The trajectories: files are read, holders are selected and deselected, the
\* grouping column, the column roles and the ranges are set, and the
\* trajectories are computed and exported.
NextTraj ==
    \/ /\ Len(data_objects) < MaxTrajFiles
       /\ \E file_path \in {PathA, PathTsv}, frame \in Parsed({FrameExample}) :
             read_file(file_path, frame)
    \/ \E id \in {<<>>, ColID} : addSplitByID(id)
    \/ reset
    \/ set_x_header(ColA)
    \/ set_y_header(ColB)
    \/ \E header \in {ColT, ColID} : set_t_header(header)
    \/ set_x_range(RangeTicks)
    \/ set_y_range(RangeTicks)
    \/ \E i \in 1..(2 * MaxDatasets), is_selected \in BOOLEAN : setSelected(i, is_selected)
    \/ GetTrajectories
    \/ \E do_for_individual_trajectories \in BOOLEAN :
          export_measures(do_for_individual_trajectories)

SpecTraj == Init /\ [][NextTraj]_vars

\* The plot: the callbacks are wired (or not yet), a file is read, holders are
\* selected and deselected, the configuration is set, the plot is drawn and
\* exported and the controller is reset.
NextPlot ==
    \/ \E frame \in Parsed({FrameExample, FrameNoID}) : read_file(PathA, frame)
    \/ AppControl_reset
    \/ set_x_header(ColA)
    \/ set_y_header(ColB)
    \/ \E header \in {ColT, ColID} : set_t_header(header)
    \/ set_x_range(RangeTicks)
    \/ set_y_range(RangeTicks)
    \/ \E i \in 1..MaxDatasets, is_selected \in BOOLEAN : setSelected(i, is_selected)
    \/ set_plot_structures
    \/ SetPlotListener
    \/ SetMeasureListener
    \/ plot
    \/ export_plot

SpecPlot == Init /\ [][NextPlot]_vars

\* The notifications: listeners register while files are read (one of them
\* failing to split, one unreadable, one unsupported), the grouping column,
\* the roles and the ranges are set, the trajectories are computed, the
\* plot is drawn and exported, the measures are exported and the store is
\* reset, directly and through the controller.
NextNotify ==
    \/ read_file(PathA, Some(FrameExample))
    \/ read_file(PathTraj, Some(FrameNoID))
    \/ read_file(PathA, None)
    \/ read_file(PathXyz, None)
    \/ \E id \in {<<>>, ColID} : addSplitByID(id)
    \/ reset
    \/ AppControl_reset
    \/ AppControl_addDataListener
    \/ set_x_header(ColA)
    \/ set_y_header(ColB)
    \/ set_t_header(ColT)
    \/ set_x_range(RangeTicks)
    \/ set_y_range(RangeTicks)
    \/ SetPlotListener
    \/ GetTrajectories
    \/ plot
    \/ export_plot
    \/ \E do_for_individual_trajectories \in BOOLEAN :
          export_measures(do_for_individual_trajectories)

SpecNotify == Init /\ [][NextNotify]_vars

\* The reset: reset callbacks and listeners register, the figure and the two
\* callback slots are set, a file is read and grouped, a role and a range are
\* set, the plot is exported and the store is reset, directly and through
\* the controller.
NextReset ==
    \/ read_file(PathA, Some(FrameExample))
    \/ addSplitByID(ColID)
    \/ set_x_header(ColA)
    \/ set_x_range(RangeTicks)
    \/ AppControl_addDataListener
    \/ AppendReset
    \/ set_plot_structures
    \/ SetPlotListener
    \/ SetMeasureListener
    \/ export_plot
    \/ AppControl_reset
    \/ reset

SpecReset == Init /\ [][NextReset]_vars

-----------------------------------------------------------------------------
(* Properties *)

\* the number of distinct values, missing cells apart, of column h of df
DistinctCount(df, h) ==
    Cardinality({Get(df.rows[r][ColumnIndex(df, h)]) :
                    r \in {q \in 1..Len(df.rows) : ~IsNone(df.rows[q][ColumnIndex(df, h)])}})

RECURSIVE SumDistinct(_, _)
SumDistinct(objs, h) ==
    IF objs = <<>> THEN 0
    ELSE DistinctCount(objs[1].data, h) + SumDistinct(Tail(objs), h)

\* the text sub occurs in the text s
Contains(s, sub) ==
    \E k \in 1..(Len(s) - Len(sub) + 1) : SubSeq(s, k, k + Len(sub) - 1) = sub

\* the indexes of the effective holders that are selected
SelectedIndexes == {k \in 1..Len(getDataObjects) : getDataObjects[k].selected}

\* the k-th selected effective holder, in the order of the effective holders
RECURSIVE NthSelected(_, _)
NthSelected(objs, k) ==
    IF objs[1].selected
    THEN (IF k = 1 THEN objs[1] ELSE NthSelected(Tail(objs), k - 1))
    ELSE NthSelected(Tail(objs), k)

\* the roles are set, the ranges are not empty, and every selected effective
\* holder has the three columns, its time cells being numbers
ValidConfiguration ==
    /\ ~IsNone(x_header) /\ ~IsNone(y_header) /\ ~IsNone(t_header)
    /\ x_range # <<>> /\ y_range # <<>>
    /\ \A k \in SelectedIndexes :
          LET df == getDataObjects[k].data
          IN  /\ HasColumn(df, Get(x_header))
              /\ HasColumn(df, Get(y_header))
              /\ HasColumn(df, Get(t_header))
              /\ \A r \in 1..Len(df.rows) :
                    LET cell == df.rows[r][ColumnIndex(df, Get(t_header))]
                    IN  IsNone(cell) \/ IsFloatText(Get(cell))

\* C1: an export of the measures per trajectory that succeeds writes one row
\* per selected effective holder, in their order, the id of a row being the
\* identifier string of the holder whose trajectory the row's measures are of.
C1_RowsCarryTheirOwnId ==
    (call.op = "export_measures" /\ call.flag /\ call.error = "none") =>
        /\ Len(call.result) = Cardinality(SelectedIndexes)
        /\ \A k \in 1..Len(call.result) :
              LET holder == NthSelected(getDataObjects, k)
              IN  /\ call.result[k].id = Some(IdentifierStr(holder.filename))
                  /\ call.result[k].measures = get_measures(<<Trajectory(holder)>>)

\* C2: getTrajectories raises the configuration error and returns no
\* trajectory whenever a column role is unset, and whenever a range is the
\* empty list although the three roles are set.
C2_UnsetConfigurationRaises ==
    (/\ call.op = "getTrajectories"
     /\ \/ IsNone(x_header) \/ IsNone(y_header) \/ IsNone(t_header)
        \/ x_range = <<>> \/ y_range = <<>>) =>
        /\ call.error = "ConfigurationError"
        /\ call.result = <<>>

\* C2 witness: the roles are set, a holder is loaded and selected, the x range
\* is set and the y range is the empty list, and getTrajectories raised.
C2_Witness ==
    /\ call.op = "getTrajectories"
    /\ call.error = "ConfigurationError"
    /\ ~IsNone(x_header) /\ ~IsNone(y_header) /\ ~IsNone(t_header)
    /\ x_range # <<>> /\ y_range = <<>>
    /\ SelectedIndexes # {}

\* C3: set_x_range and set_y_range with the empty text leave the range the
\* empty list (so that getTrajectories raises the configuration error).
C3_EmptyTextGivesEmptyRange ==
    /\ (call.op = "set_x_range" /\ call.arg = <<>>) => x_range = <<>>
    /\ (call.op = "set_y_range" /\ call.arg = <<>>) => y_range = <<>>

\* the four extensions of the reader registry, as read_file extracts them
DottedExtensions ==
    { <<".", "c", "s", "v">>, <<".", "t", "r", "a", "j">>,
      <<".", "t", "s", "v">>, <<".", "x", "l", "s">> }

\* C4: for a path whose extension is .csv, .traj, .tsv or .xls, canHandle is
\* true and read_file does not raise the unsupported-file-type error; and
\* read_file raises it exactly when canHandle of the extension is false.
C4_RegistryHandlesItsFourExtensions ==
    call.op = "read_file" =>
        LET extension == splitext_ext(call.arg)
        IN  /\ extension \in DottedExtensions =>
                  canHandle(extension) /\ call.error # "UnsupportedFileType"
            /\ call.error = "UnsupportedFileType" <=> ~canHandle(extension)

\* C5: read_file of a path whose extension is not in the registry raises the
\* unsupported-file-type error, whose message lists every extension of the
\* registry, invokes no listener and leaves data_objects, split_data_objects
\* and split_by_id as they were.
C5_UnsupportedLeavesStoreUnchanged ==
    [][(call'.op = "read_file" /\ ~canHandle(splitext_ext(call'.arg))) =>
          /\ call'.error = "UnsupportedFileType"
          /\ \A k \in 1..Len(file_readers) : Contains(call'.message, file_readers[k].extension)
          /\ call'.events = <<>>
          /\ data_objects' = data_objects
          /\ split_data_objects' = split_data_objects
          /\ split_by_id' = split_by_id]_vars

\* C5 witness: a file is loaded and grouped, a listener is registered, and
\* read_file of c.xyz raised the unsupported-file-type error.
C5_Witness ==
    /\ call.op = "read_file"
    /\ call.arg = PathXyz
    /\ call.error = "UnsupportedFileType"
    /\ split_data_objects # <<>>
    /\ data_object_listeners # <<>>

\* C6: addSplitByID of a column name that returns leaves as many split holders
\* as the loaded frames have distinct values of that column, summed over the
\* frames, whatever the grouping was before; addSplitByID("") makes the
\* effective holders the loaded holders, in load order; neither changes
\* data_objects.
C6_SplitCountIsSumOfDistinct ==
    [][call'.op = "addSplitByID" =>
          /\ data_objects' = data_objects
          /\ (call'.arg # <<>> /\ call'.error = "none") =>
                Len(split_data_objects') = SumDistinct(data_objects, call'.arg)
          /\ call'.arg = <<>> => getDataObjects' = data_objects]_vars

\* C6 witness: two loaded frames, of two and of one distinct ID (a missing
\* cell apart), are split by ID into three holders.
C6_Witness ==
    /\ call.op = "addSplitByID"
    /\ call.arg = ColID
    /\ call.error = "none"
    /\ Len(data_objects) = 2
    /\ data_objects[1].data = FrameExample
    /\ data_objects[2].data = FrameMissing
    /\ Len(split_data_objects) = 3

\* C7: while no grouping column is set, there are as many effective holders
\* as addDataObject was called since creation or the last reset.
C7_EffectiveCountIsAddCount ==
    IsNone(split_by_id) => Len(getDataObjects) = n_added

\* C7 witness: two files of the same base name, one without rows, are loaded.
C7_Witness ==
    /\ IsNone(split_by_id)
    /\ n_added = 2
    /\ Len(getDataObjects) = 2
    /\ getDataObjects[1].filename = getDataObjects[2].filename
    /\ getDataObjects[2].data.rows = <<>>

\* C8: reset leaves no effective holder, split_by_id and the three roles
\* unset, gives every listener the empty list, and leaves the ranges as they
\* were.
C8_ResetClearsAllButRanges ==
    [][call'.op = "reset" =>
          /\ getDataObjects' = <<>>
          /\ split_by_id' = None
          /\ x_header' = None /\ y_header' = None /\ t_header' = None
          /\ call'.events = [i \in 1..Len(data_object_listeners) |->
                               Event("listener", data_object_listeners[i], <<>>)]
          /\ x_range' = x_range
          /\ y_range' = y_range]_vars

\* C8 witness: after a reset, with a listener notified, both ranges are as
\* they were set.
C8_Witness ==
    /\ call.op = "reset"
    /\ Len(call.events) = 1
    /\ x_range = <<<<"1">>, <<"3">>>>
    /\ y_range = <<<<"2">>, <<"4">>>>

\* C9: with a valid configuration and both callbacks wired, plot invokes the
\* render callback once, with the trajectories of the selected effective
\* holders; it invokes nothing else when there is none, and the measure
\* callback once, after the render callback, when there is one.
C9_RenderThenMeasure ==
    (/\ call.op = "plot"
     /\ ValidConfiguration
     /\ ~IsNone(plot_listener) /\ ~IsNone(measure_listener)) =>
        /\ call.error = "none"
        /\ call.events[1].kind = "render"
        /\ Len(call.events[1].data) = Cardinality(SelectedIndexes)
        /\ IF SelectedIndexes = {}
           THEN Len(call.events) = 1
           ELSE Len(call.events) = 2 /\ call.events[2].kind = "measure"

\* C9 witness: a file is loaded and deselected, and plot rendered the empty
\* list of trajectories.
C9_Witness ==
    /\ call.op = "plot"
    /\ call.error = "none"
    /\ data_objects # <<>>
    /\ SelectedIndexes = {}
    /\ Len(call.events) = 1

\* the AppError kinds
AppErrors == {"ConfigurationError", "InternalWiringError", "UnsupportedFileType"}

\* C10 as stated: plot raises an AppError whenever the render callback or the
\* measure callback is not wired.
C10_MissingCallbackRaisesAppError ==
    (call.op = "plot" /\ (IsNone(plot_listener) \/ IsNone(measure_listener))) =>
        call.error \in AppErrors

\* C10: whenever the render callback or the measure callback is not wired,
\* plot fails: with the wiring error when the configuration is valid, with
\* the error of getTrajectories otherwise; a callback that is not wired is
\* never invoked, and the render callback is invoked before the wiring error
\* only when it is the measure callback that is missing.
C10_MissingCallbackFails ==
    call.op = "plot" =>
        /\ (IsNone(plot_listener) \/ IsNone(measure_listener)) =>
              /\ call.error # "none"
              /\ ValidConfiguration => call.error = "InternalWiringError"
              /\ ~ValidConfiguration => call.error # "InternalWiringError" /\ call.events = <<>>
        /\ \A k \in 1..Len(call.events) :
              /\ call.events[k].kind = "render" => ~IsNone(plot_listener)
              /\ call.events[k].kind = "measure" => ~IsNone(measure_listener)

\* C10 witness: the configuration is valid, no holder is selected, the render
\* callback is wired and invoked, the measure callback is not, and plot raised
\* the wiring error.
C10_Witness ==
    /\ call.op = "plot"
    /\ ValidConfiguration
    /\ SelectedIndexes = {}
    /\ ~IsNone(plot_listener)
    /\ IsNone(measure_listener)
    /\ call.error = "InternalWiringError"
    /\ Len(call.events) = 1

\* C11: a plot that raises, whatever the error, has invoked neither the render
\* callback nor the measure callback.
C11_FailingPlotInvokesNothing ==
    (call.op = "plot" /\ call.error # "none") => call.events = <<>>

\* C12: an addDataObject (through read_file) or addSplitByID that raises
\* KeyError, the grouping column not being a column of a frame it splits,
\* leaves data_objects, split_data_objects and split_by_id as they were.
C12_FailedSplitLeavesStoreUnchanged ==
    [][(call'.op \in {"read_file", "addSplitByID"} /\ call'.error = "KeyError") =>
          /\ data_objects' = data_objects
          /\ split_data_objects' = split_data_objects
          /\ split_by_id' = split_by_id]_vars

\* C13 as stated: export_plot raises an AppError as long as plot has never
\* invoked the render callback.
C13_ExportBeforeRenderFails ==
    (call.op = "export_plot" /\ ~rendered) => call.error \in AppErrors

\* C13: export_plot raises the wiring error exactly when no figure was given
\* to set_plot_structures, whether or not plot has rendered anything; when it
\* does not raise it saves the figure, once.
C13_ExportFailsWithoutFigure ==
    call.op = "export_plot" =>
        /\ call.error = "InternalWiringError" <=> IsNone(matpltlib_fig)
        /\ call.error \in {"none", "InternalWiringError"}
        /\ call.error = "none" => call.events = <<Event("savefig", 0, <<>>)>>
        /\ call.error # "none" => call.events = <<>>

\* C13 witness: the figure of the plot widget is registered, plot has rendered
\* nothing, and export_plot saved the figure.
C13_Witness ==
    /\ call.op = "export_plot"
    /\ call.error = "none"
    /\ ~rendered
    /\ ~IsNone(matpltlib_fig)
    /\ call.events # <<>>

\* C14: with a valid configuration, an export of the measures of all
\* trajectories together writes exactly one row, without id, however many
\* effective holders are selected, none included.
C14_CumulativeExportWritesOneRow ==
    (call.op = "export_measures" /\ ~call.flag /\ ValidConfiguration) =>
        /\ call.error = "none"
        /\ Len(call.result) = 1
        /\ IsNone(call.result[1].id)

\* how many elements of the sequence s equal x
Occurrences(s, x) == Cardinality({k \in 1..Len(s) : s[k] = x})

\* the sequences s and t hold the same elements, each as many times
IsPermutation(s, t) ==
    /\ Len(s) = Len(t)
    /\ \A k \in 1..Len(s) : Occurrences(s, s[k]) = Occurrences(t, s[k])

\* the holders of s are in ascending order of (filename, id)
IsSortedByKey(s) == \A i, j \in 1..Len(s) : i < j => ~KeyLess(s[j], s[i])

\* the listener notifications of the last call
Notifications == {k \in 1..Len(call.events) : call.events[k].kind = "listener"}

\* C15: every notification gives the listener the effective holders of the
\* state the call leaves, ascending by (filename, id): a permutation of
\* getDataObjects; and the sort never raises, two files of the same base name
\* loaded or not.
C15_NotifiedSortedEffective ==
    /\ call.error # "TypeError"
    /\ \A k \in Notifications :
          /\ IsSortedByKey(call.events[k].data)
          /\ IsPermutation(call.events[k].data, getDataObjects)

\* C15 witness: two files of the same base name are loaded and grouped, and a
\* listener was given their holders in another order than they are stored in.
C15_Witness ==
    /\ Notifications # {}
    /\ Len(data_objects) = 2
    /\ data_objects[1].filename = data_objects[2].filename
    /\ split_data_objects # <<>>
    /\ call.events[1].data # getDataObjects

IsListenerEvent(e) == e.kind = "listener"

\* the listener notifications among events, in order
ListenerEvents(events) == SelectSeq(events, IsListenerEvent)

\* the calls that end in AppState.update
NotifyingOps == {"read_file", "addSplitByID", "reset", "AppControl.reset"}

\* C16: a read_file (addDataObject), an addSplitByID, of the empty name or of
\* a column, and a reset that return invoke every registered listener once,
\* in registration order, each given the holders of the state the call
\* leaves; a call that raises, and every other call, invokes no listener.
C16_EachListenerOnceInOrder ==
    [][IF call'.op \in NotifyingOps /\ call'.error = "none"
       THEN /\ data_object_listeners' = data_object_listeners
            /\ ListenerEvents(call'.events) =
                  [i \in 1..Len(data_object_listeners) |->
                      Event("listener", data_object_listeners[i], SortedByKey(getDataObjects'))]
       ELSE ListenerEvents(call'.events) = <<>>]_vars

\* C16 witness: with two listeners registered and a file loaded, addSplitByID
\* of the empty name notified the first listener, then the second.
C16_Witness ==
    /\ call.op = "addSplitByID"
    /\ call.arg = <<>>
    /\ data_objects # <<>>
    /\ Len(call.events) = 2
    /\ call.events[1].who = data_object_listeners[1]
    /\ call.events[2].who = data_object_listeners[2]
    /\ call.events[1].who # call.events[2].who

\* C17: AppControl.reset invokes every reset callback once, in registration
\* order, each finding the store's holders, grouping and roles as they were
\* before the call, and only then resets the store, whose listeners are then
\* given the empty list.
C17_CallbacksThenStoreReset ==
    [][call'.op = "AppControl.reset" =>
          /\ call'.events =
                [i \in 1..Len(resets) |-> Event("reset_func", resets[i], StoreSeen)]
                \o [i \in 1..Len(data_object_listeners) |->
                      Event("listener", data_object_listeners[i], <<>>)]
          /\ data_objects' = <<>>
          /\ split_data_objects' = <<>>
          /\ split_by_id' = None
          /\ x_header' = None /\ y_header' = None /\ t_header' = None]_vars

\* C17 witness: two reset callbacks and a listener are registered, a file is
\* loaded and grouped and a role is set, and AppControl.reset invoked the two
\* callbacks, which found the holders and the role, and then the listener.
C17_Witness ==
    /\ call.op = "AppControl.reset"
    /\ Len(resets) = 2
    /\ Len(call.events) = 3
    /\ call.events[1].kind = "reset_func" /\ call.events[1].who = resets[1]
    /\ call.events[2].kind = "reset_func" /\ call.events[2].who = resets[2]
    /\ call.events[2].data[1] # <<>>
    /\ call.events[2].data[2] # <<>>
    /\ call.events[2].data[4] = Some(ColA)
    /\ call.events[3].kind = "listener"
    /\ data_objects = <<>>

\* the elements of the sequence s
Range(s) == {s[k] : k \in 1..Len(s)}

\* C19: addDataListener appends the listener, invokes nothing and changes
\* nothing else; and a call notifies exactly the listeners that were
\* registered before it, each once: none that registers later, and every one
\* registered earlier whenever it notifies at all.
C19_NoReplayOnRegistration ==
    [][/\ call'.op = "addDataListener" =>
             /\ call'.events = <<>>
             /\ Len(data_object_listeners') = Len(data_object_listeners) + 1
             /\ SubSeq(data_object_listeners', 1, Len(data_object_listeners)) = data_object_listeners
             /\ UNCHANGED <<storeData, storeConfig, matpltlib_fig, plot_listener,
                            measure_listener, resets>>
       /\ \A k \in 1..Len(call'.events) :
             call'.events[k].kind = "listener" =>
                call'.events[k].who \in Range(data_object_listeners)
       /\ ListenerEvents(call'.events) # <<>> =>
             \A who \in Range(data_object_listeners) :
                Cardinality({k \in 1..Len(call'.events) :
                                /\ call'.events[k].kind = "listener"
                                /\ call'.events[k].who = who}) = 1]_vars

\* C19 witness: a second listener registered while a file was loaded, and
\* nothing was invoked.
C19_Witness ==
    /\ call.op = "addDataListener"
    /\ Len(data_object_listeners) = 2
    /\ getDataObjects # <<>>
    /\ call.events = <<>>

\* the setters of the column roles and of the ranges
SetterOps == {"set_x_header", "set_y_header", "set_t_header", "set_x_range", "set_y_range"}

\* C18: a setter of a role or of a range assigns the field it names, the role
\* the header it is given, the range the parsed text; it invokes no listener
\* and leaves the holders with their selected flags, the split holders, the
\* grouping column and the other roles and ranges as they were.
C18_SettersChangeOnlyTheirField ==
    [][call'.op \in SetterOps =>
          /\ call'.events = <<>>
          /\ data_objects' = data_objects
          /\ split_data_objects' = split_data_objects
          /\ split_by_id' = split_by_id
          /\ x_header' = (IF call'.op = "set_x_header" THEN Some(call'.arg) ELSE x_header)
          /\ y_header' = (IF call'.op = "set_y_header" THEN Some(call'.arg) ELSE y_header)
          /\ t_header' = (IF call'.op = "set_t_header" THEN Some(call'.arg) ELSE t_header)
          /\ x_range' = (IF call'.op = "set_x_range" THEN ParseRange(call'.arg) ELSE x_range)
          /\ y_range' = (IF call'.op = "set_y_range" THEN ParseRange(call'.arg) ELSE y_range)]_vars

\* C18 witness: with a listener registered, a file loaded and grouped, its
\* first holder deselected and the x range set, set_x_header was called.
C18_Witness ==
    /\ call.op = "set_x_header"
    /\ data_object_listeners # <<>>
    /\ split_data_objects # <<>>
    /\ ~split_data_objects[1].selected
    /\ x_range # <<>>
    /\ x_header = Some(ColA)

\* the calls of AppState.reset, direct and through AppControl.reset
ResetOps == {"reset", "AppControl.reset"}

\* the call reached AppState.addDataObject: a reader was found for the file
\* and parsed it
ReachedAddDataObject(c) ==
    c.op = "read_file" /\ c.error \notin {"UnsupportedFileType", "IOError"}

\* C20: across every call but a reset, data_objects as it was is a prefix of
\* data_objects as it is left; it is left longer, by one holder, exactly by
\* the calls that reach addDataObject, and as it was by all the others
\* (addSplitByID, the setters, plot, the exports, a read_file that no reader
\* takes or whose reader fails).
C20_DataObjectsAppendOnly ==
    [][call'.op \notin ResetOps =>
          /\ Len(data_objects') >= Len(data_objects)
          /\ SubSeq(data_objects', 1, Len(data_objects)) = data_objects
          /\ Len(data_objects') =
                (IF ReachedAddDataObject(call') THEN Len(data_objects) + 1 ELSE Len(data_objects))]_vars

\* C20 witness: a second file, another than the first, was appended to
\* data_objects while a grouping column was set.
C20_Witness ==
    /\ call.op = "read_file"
    /\ call.error = "none"
    /\ ~IsNone(split_by_id)
    /\ Len(data_objects) = 2
    /\ data_objects[1].filename # data_objects[2].filename

\* the split holders of objs by column col, in the order of objs: the
\* holders _splitByID makes of each of them (of a frame without the column,
\* which groupby refuses, none)
RECURSIVE SplitInLoadOrder(_, _)
SplitInLoadOrder(objs, col) ==
    IF objs = <<>> THEN <<>>
    ELSE (IF HasColumn(objs[1].data, col) THEN SplitOf(objs[1], col) ELSE <<>>)
         \o SplitInLoadOrder(Tail(objs), col)

\* C21: split_data_objects is empty whenever split_by_id is unset, and
\* whenever it is set it is the concatenation, in load order, of the split of
\* each loaded holder by that column, whether the holders were loaded before
\* or after the column was set.
C21_SplitMatchesLoadedData ==
    IF IsNone(split_by_id)
    THEN split_data_objects = <<>>
    ELSE split_data_objects = SplitInLoadOrder(data_objects, Get(split_by_id))

\* C22: with a valid configuration getTrajectories returns one trajectory per
\* selected effective holder and none for a deselected one, in the order of
\* getDataObjects (not the sorted order of the notifications), each with the
\* x_range and y_range of the state.
C22_OneTrajectoryPerSelectedHolder ==
    (call.op = "getTrajectories" /\ ValidConfiguration) =>
        /\ call.error = "none"
        /\ Len(call.result) = Cardinality(SelectedIndexes)
        /\ \A k \in 1..Len(call.result) :
              /\ call.result[k] = Trajectory(NthSelected(getDataObjects, k))
              /\ call.result[k].x_range = x_range
              /\ call.result[k].y_range = y_range

\* C22 witness: two files are grouped into four holders whose stored order is
\* not the sorted one, the first is deselected, and getTrajectories returned
\* three trajectories.
C22_Witness ==
    /\ call.op = "getTrajectories"
    /\ ValidConfiguration
    /\ Len(split_data_objects) = 4
    /\ ~split_data_objects[1].selected
    /\ getDataObjects # SortedByKey(getDataObjects)
    /\ Len(call.result) = 3

\* the n-th smallest element of the set S of numbers
NthIndex(S, n) == CHOOSE i \in S : Cardinality({j \in S : j < i}) = n - 1

\* the rows of the frame df that are listed in the set idx, in row order
RowsAt(df, idx) == [n \in 1..Cardinality(idx) |-> df.rows[NthIndex(idx, n)]]

\* the (x, y) pairs of rows, and their times as numbers
StatesOfRows(df, rows) ==
    [n \in 1..Len(rows) |->
        <<Get(rows[n][ColumnIndex(df, Get(x_header))]),
          Get(rows[n][ColumnIndex(df, Get(y_header))])>>]

TimesOfRows(df, rows) ==
    [n \in 1..Len(rows) |-> ToFloat(Get(rows[n][ColumnIndex(df, Get(t_header))]))]

\* no cell of the frame is missing
NoMissingValue(df) ==
    \A r \in 1..Len(df.rows) : \A c \in 1..Len(df.rows[r]) : ~IsNone(df.rows[r][c])

\* the rows of df whose cell in column col is the text v
GroupIndexes(df, col, v) ==
    {r \in 1..Len(df.rows) : df.rows[r][ColumnIndex(df, col)] = Some(v)}

\* the texts in column col of df
GroupValues(df, col) ==
    {Get(df.rows[r][ColumnIndex(df, col)]) : r \in 1..Len(df.rows)}

RECURSIVE TotalStates(_)
TotalStates(trajectories) ==
    IF trajectories = <<>> THEN 0
    ELSE Len(trajectories[1].states) + TotalStates(Tail(trajectories))

RECURSIVE TotalRows(_)
TotalRows(objs) ==
    IF objs = <<>> THEN 0 ELSE Len(objs[1].data.rows) + TotalRows(Tail(objs))

\* C23: with a valid configuration, every effective holder selected and no
\* value missing in the loaded frames: without grouping, the k-th trajectory
\* has as states the (x, y) pairs of all rows of the k-th frame, in row
\* order, and as times its time column, as long as the states; with a
\* grouping column, there is a trajectory for every distinct value of the
\* column in every frame, its states and times those of the rows of that
\* value in their order in the frame, there are as many trajectories as such
\* values, and their states are as many as the frames have rows.
C23_TrajectoriesFollowTheRows ==
    (/\ call.op = "getTrajectories"
     /\ ValidConfiguration
     /\ SelectedIndexes = 1..Len(getDataObjects)
     /\ \A j \in 1..Len(data_objects) : NoMissingValue(data_objects[j].data)) =>
        /\ call.error = "none"
        /\ \A k \in 1..Len(call.result) :
              Len(call.result[k].times) = Len(call.result[k].states)
        /\ TotalStates(call.result) = TotalRows(data_objects)
        /\ IF split_data_objects = <<>>
           THEN /\ Len(call.result) = Len(data_objects)
                /\ \A k \in 1..Len(data_objects) :
                      LET df == data_objects[k].data
                      IN  /\ call.result[k].states = StatesOfRows(df, df.rows)
                          /\ call.result[k].times = TimesOfRows(df, df.rows)
           ELSE /\ Len(call.result) = SumDistinct(data_objects, Get(split_by_id))
                /\ \A j \in 1..Len(data_objects) :
                      LET df == data_objects[j].data
                      IN  \A v \in GroupValues(df, Get(split_by_id)) :
                             LET rows == RowsAt(df, GroupIndexes(df, Get(split_by_id), v))
                             IN  \E k \in 1..Len(call.result) :
                                    /\ call.result[k].states = StatesOfRows(df, rows)
                                    /\ call.result[k].times = TimesOfRows(df, rows)

\* C23 witness: the rows (1,2,0,g2), (3,4,1,g1), (5,6,0,g2) grouped by ID give
\* the trajectory of g1 with states [(3,4)] and times [1] and the trajectory
\* of g2 with states [(1,2),(5,6)] and times [0,0].
C23_Witness ==
    /\ call.op = "getTrajectories"
    /\ call.error = "none"
    /\ Len(data_objects) = 1
    /\ split_by_id = Some(ColID)
    /\ Len(call.result) = 2
    /\ call.result[1].states = << <<<<"3">>, <<"4">>>> >>
    /\ call.result[1].times = <<1>>
    /\ call.result[2].states = << <<<<"1">>, <<"2">>>>, <<<<"5">>, <<"6">>>> >>
    /\ call.result[2].times = <<0, 0>>

\* C24: whenever split_by_id is set and a holder is loaded, every effective
\* holder is a split one (its identifier has an id), also when the loaded
\* frames have no row or no value in the grouping column.
C24_GroupedMeansOnlySplitHolders ==
    (~IsNone(split_by_id) /\ data_objects # <<>>) =>
        \A k \in 1..Len(getDataObjects) : ~IsNone(getDataObjects[k].filename.id)

\* a selected holder of objs, of file f, holds the row: the row goes into a
\* trajectory of that file
Contributes(objs, f, row) ==
    \E k \in 1..Len(objs) :
        /\ objs[k].selected
        /\ objs[k].filename.filename = f
        /\ row \in Range(objs[k].data.rows)

\* C25: an addSplitByID, and a read_file of another file, include no row anew
\* that only deselected effective holders held: the rows of a deselected
\* holder that went into no trajectory before the call go into none after
\* it; and addSplitByID leaves the selected flag of every loaded holder as it
\* was, so that clearing the grouping gives the flags back.
C25_DeselectedStaysOut ==
    [][/\ \A k \in 1..Len(getDataObjects) :
             LET f == getDataObjects[k].filename.filename
             IN  (/\ ~getDataObjects[k].selected
                  /\ \/ call'.op = "addSplitByID"
                     \/ call'.op = "read_file" /\ basename(call'.arg) # f) =>
                    \A row \in Range(getDataObjects[k].data.rows) :
                       ~Contributes(getDataObjects, f, row) =>
                          ~Contributes(getDataObjects', f, row)
       /\ call'.op = "addSplitByID" =>
             \A j \in 1..Len(data_objects) :
                data_objects'[j].selected = data_objects[j].selected]_vars

\* C26: the identifier strings getIDs returns are pairwise distinct, whatever
\* files were read, the same file twice and files of the same base name in
\* different directories included.
C26_IdentifiersAreDistinct ==
    \A i, j \in 1..Len(getIDs) : i # j => getIDs[i] # getIDs[j]

\* C27: reset and AppControl.reset leave the listener list, the two callback
\* slots, the reset callbacks and the figure as they were; so the read_file
\* that follows a reset notifies every listener registered before the reset,
\* and the export_plot that follows a reset raises only when no figure was
\* ever registered.
C27_ResetKeepsTheWiring ==
    [][/\ call'.op \in ResetOps =>
             /\ data_object_listeners' = data_object_listeners
             /\ plot_listener' = plot_listener
             /\ measure_listener' = measure_listener
             /\ resets' = resets
             /\ matpltlib_fig' = matpltlib_fig
       /\ (call.op \in ResetOps /\ call'.op = "read_file" /\ call'.error = "none") =>
             /\ Len(ListenerEvents(call'.events)) = Len(data_object_listeners)
             /\ \A who \in Range(data_object_listeners) :
                   \E k \in 1..Len(call'.events) : call'.events[k].who = who
       /\ (call.op \in ResetOps /\ call'.op = "export_plot") =>
             (call'.error = "none" <=> ~IsNone(matpltlib_fig))]_vars

\* C27 witness: with two listeners, two reset callbacks, both callback slots
\* and the figure registered and a file loaded, AppControl.reset invoked the
\* callbacks and the listeners and left all of them registered.
C27_Witness ==
    /\ call.op = "AppControl.reset"
    /\ Len(call.events) = 4
    /\ call.events[1].data[1] # <<>>
    /\ Len(data_object_listeners) = 2
    /\ Len(resets) = 2
    /\ ~IsNone(plot_listener)
    /\ ~IsNone(measure_listener)
    /\ ~IsNone(matpltlib_fig)

\* the calls that compute the trajectories
ComputeOps == {"plot", "getTrajectories", "export_measures"}

\* C28: AppControl.reset leaves the three roles unset; and as long as one of
\* the roles is unset, every plot, getTrajectories and export_measures raises
\* the configuration error, invokes no callback and returns or writes
\* nothing, whatever the ranges are and whatever was loaded since.
C28_ResetBackToIdle ==
    [][/\ call'.op = "AppControl.reset" =>
             x_header' = None /\ y_header' = None /\ t_header' = None
       /\ (/\ call'.op \in ComputeOps
           /\ IsNone(x_header') \/ IsNone(y_header') \/ IsNone(t_header')) =>
             /\ call'.error = "ConfigurationError"
             /\ call'.events = <<>>
             /\ call'.result = <<>>]_vars

\* C28 witness: a plot was rendered, so the three roles were set; the store
\* was reset since, the ranges survived, a file was loaded and two roles were
\* assigned again; plot, the render callback wired, raised the configuration
\* error.
C28_Witness ==
    /\ call.op = "plot"
    /\ call.error = "ConfigurationError"
    /\ rendered
    /\ ~IsNone(plot_listener)
    /\ ~IsNone(x_header) /\ ~IsNone(y_header) /\ IsNone(t_header)
    /\ x_range # <<>> /\ y_range # <<>>
    /\ data_objects # <<>>

=============================================================================
